---- MODULE Spec2Model ----
(***************************************************************************)
(* Model of spark_room.py: one invocation of the Ansible module.  main()   *)
(* builds a Connection, lists the rooms, resolves the room title, creates  *)
(* the room when it was not found, optionally adds a member, optionally    *)
(* sends a message, and reports through exit_json / fail_json.             *)
(*                                                                         *)
(* The Spark server is the environment: each request gets one reaction,    *)
(* chosen nondeterministically (requests.ConnectionError, or a response    *)
(* with a status code and a content).  A Python exception that nothing     *)
(* catches (KeyError, TypeError) ends the run at pc = "raised".            *)
(***************************************************************************)
EXTENDS Integers, Sequences, FiniteSets, TLC

VARIABLES
    room,       \* module.params["room"]: the title, a sequence of characters
    text,       \* module.params["text"]
    filename,   \* module.params["filename"]
    members,    \* module.params["members"]
    spark,      \* the Connection object: rooms, code, changed, response
    room_id,    \* main's local room_id
    pc,         \* the statement of main() that runs next
    calls,      \* the requests issued so far, each with the server's reaction
    result      \* what main() handed to exit_json / fail_json

vars == <<room, text, filename, members, spark, room_id, pc, calls, result>>

-----------------------------------------------------------------------------
(* Bounds of the model *)

\* longest room title, in characters
MaxLen == 2
\* longest room listing the server returns
MaxRooms == 2

-----------------------------------------------------------------------------
(* Values *)

\* Python's None where a string is expected (room_id, text, filename, members)
None == "None"
\* the empty string parameter
Empty == ""
\* a key that a JSON object does not carry
NoKey == "NoKey"

\* bool(x) of an optional string parameter
Truthy(x) == x # None /\ x # Empty

Alphabet == {"a", "b"}

RECURSIVE StrUpTo(_)
StrUpTo(n) ==
    IF n = 0 THEN {<< >>}
    ELSE LET shorter == StrUpTo(n - 1)
         IN  shorter \cup {Append(s, c) : s \in shorter, c \in Alphabet}

\* the room titles of the model
Titles == StrUpTo(MaxLen)

\* opaque, non-empty room identifiers assigned by the server
RoomIds == {"id1", "id2"}

\* a Room of the listing: {"id": ..., "title": ...}
Rooms == [id : RoomIds, title : Titles]

RECURSIVE SeqUpTo(_, _)
SeqUpTo(S, n) ==
    IF n = 0 THEN {<< >>}
    ELSE LET shorter == SeqUpTo(S, n - 1)
         IN  shorter \cup {Append(s, x) : s \in shorter, x \in S}

-----------------------------------------------------------------------------
(* The server's reactions *)

\* requests.ConnectionError carries no HTTP status; genericPOST returns False,
\* which Python adds and compares as the integer 0
False == 0
\* the status list_rooms reports after a ConnectionError
ListRoomsFailed == 404
OK == 200
Forbidden == 403

\* httplib.responses of Python 2: the status codes that have a reason phrase
httplib_responses ==
    (100..101) \cup (200..206) \cup (300..307) \cup (400..417) \cup (500..505)

\* status codes the server answers a POST with; 429 has no entry in
\* httplib.responses
PostStatus == {200, 403, 404, 429}
\* status codes the server answers the room listing with
ListStatus == {200, 401}

\* r.content of a POST: not JSON, or a JSON object with or without "id"
PostContents ==
    {[json |-> FALSE, id |-> NoKey]} \cup
    {[json |-> TRUE, id |-> i] : i \in RoomIds \cup {NoKey}}

NoContent == [json |-> FALSE, id |-> NoKey]

PostReactions ==
    {[kind |-> "ConnectionError", status_code |-> 0, content |-> NoContent]} \cup
    {[kind |-> "response", status_code |-> s, content |-> c] :
        s \in PostStatus, c \in PostContents}

\* r.content of the listing: not JSON, JSON without "items", or
\* {"items": [room, ...]}
ListContents(listings) ==
    {[json |-> FALSE, hasItems |-> FALSE, items |-> << >>],
     [json |-> TRUE,  hasItems |-> FALSE, items |-> << >>]} \cup
    {[json |-> TRUE,  hasItems |-> TRUE,  items |-> l] : l \in listings}

ListReactionsOver(statuses, listings) ==
    {[kind |-> "ConnectionError", status_code |-> 0,
      content |-> [json |-> FALSE, hasItems |-> FALSE, items |-> << >>]]} \cup
    {[kind |-> "response", status_code |-> s, content |-> c] :
        s \in statuses, c \in ListContents(listings)}

-----------------------------------------------------------------------------
(* The Connection class *)

\* values of self.response
NoneResponse == [type |-> "None", id |-> NoKey, status |-> 0]
ExcResponse  == [type |-> "ConnectionError", id |-> NoKey, status |-> 0]
JsonResponse(content) == [type |-> "json", id |-> content.id, status |-> 0]
ValueErrorResponse(status_code) ==
    [type |-> "ValueError", id |-> NoKey, status |-> status_code]

\* values of self.rooms
NoneRooms == [isNone |-> TRUE, items |-> << >>]
ListOfRooms(l) == [isNone |-> FALSE, items |-> l]

\* Connection.__init__
Connection ==
    [rooms |-> NoneRooms, code |-> 0, changed |-> FALSE, response |-> NoneResponse]

\* Connection.get_changed_flag
get_changed_flag(self) == self.changed

\* set_returncode with 403 taken for a success everywhere
set_returncode_403_ok(self, rc) ==
    IF rc = OK
    THEN [self |-> [self EXCEPT !.changed = TRUE], ret |-> rc]
    ELSE IF rc = Forbidden
    THEN [self |-> self, ret |-> None]
    ELSE [self |-> [self EXCEPT !.code = self.code + rc], ret |-> None]

\* Connection.set_returncode: the updated object and the value returned
set_returncode(self, rc) ==
    IF rc = OK
    THEN [self |-> [self EXCEPT !.changed = TRUE], ret |-> rc]
    ELSE [self |-> [self EXCEPT !.code = self.code + rc], ret |-> None]

\* Connection.genericPOST: raised when the except clauses let a fault through
genericPOST(self, r) ==
    IF r.kind = "ConnectionError"
    THEN [raised |-> FALSE, self |-> self, rc |-> False, response |-> ExcResponse]
    ELSE IF r.content.json
    THEN [raised |-> FALSE,
          self |-> [self EXCEPT !.response = JsonResponse(r.content)],
          rc |-> r.status_code, response |-> JsonResponse(r.content)]
    ELSE IF r.status_code \in httplib_responses
    THEN [raised |-> FALSE,
          self |-> [self EXCEPT !.response = ValueErrorResponse(r.status_code)],
          rc |-> r.status_code, response |-> ValueErrorResponse(r.status_code)]
    ELSE \* KeyError: httplib.responses[r.status_code]
         [raised |-> TRUE, self |-> self, rc |-> r.status_code,
          response |-> self.response]

\* list_rooms passing its status to set_returncode as the POSTs do
list_rooms_tallied(self, r) ==
    IF r.kind = "ConnectionError"
    THEN [raised |-> FALSE, self |-> self, rc |-> ListRoomsFailed]
    ELSE IF ~r.content.json
    THEN [raised |-> FALSE,
          self |-> set_returncode([self EXCEPT !.rooms = NoneRooms],
                                  r.status_code).self,
          rc |-> r.status_code]
    ELSE IF r.content.hasItems
    THEN [raised |-> FALSE,
          self |-> set_returncode(
                       [self EXCEPT !.rooms = ListOfRooms(r.content.items)],
                       r.status_code).self,
          rc |-> r.status_code]
    ELSE [raised |-> TRUE, self |-> self, rc |-> r.status_code]

\* Connection.list_rooms
list_rooms(self, r) ==
    IF r.kind = "ConnectionError"
    THEN [raised |-> FALSE, self |-> self, rc |-> ListRoomsFailed]
    ELSE IF ~r.content.json
    THEN [raised |-> FALSE, self |-> [self EXCEPT !.rooms = NoneRooms],
          rc |-> r.status_code]
    ELSE IF r.content.hasItems
    THEN [raised |-> FALSE,
          self |-> [self EXCEPT !.rooms = ListOfRooms(r.content.items)],
          rc |-> r.status_code]
    ELSE \* KeyError: json.loads(r.content)["items"]
         [raised |-> TRUE, self |-> self, rc |-> r.status_code]

\* the title compared for equality instead
Contains_exact(title, s) == title = s

\* title in s: Python's substring test on strings
Contains(title, s) ==
    \E i \in 0..(Len(s) - Len(title)) : SubSeq(s, i + 1, i + Len(title)) = title

RECURSIVE FirstMatch(_, _)
FirstMatch(items, title) ==
    IF items = << >> THEN None
    ELSE IF Contains(title, Head(items).title) THEN Head(items).id
    ELSE FirstMatch(Tail(items), title)

\* Connection.get_room_id
get_room_id(self, title) ==
    IF ~self.rooms.isNone /\ self.rooms.items # << >>
    THEN FirstMatch(self.rooms.items, title)
    ELSE None

\* the payload with text and file always in it
send_message_payload_all_keys(room_id_, msg, filename_) ==
    [roomId |-> room_id_, text |-> msg, file |-> filename_]

\* the payload send_message builds: roomId, and text / file when given
send_message_payload(room_id_, msg, filename_) ==
    LET keys == {"roomId"} \cup (IF Truthy(msg) THEN {"text"} ELSE {})
                           \cup (IF Truthy(filename_) THEN {"file"} ELSE {})
    IN  [k \in keys |-> CASE k = "roomId" -> room_id_
                          [] k = "text"   -> msg
                          [] k = "file"   -> filename_]

\* Connection.send_message
send_message(self, room_id_, msg, filename_, r) ==
    LET p == genericPOST(self, r)
        s == [p.self EXCEPT !.response = p.response]
    IN  IF p.raised
        THEN [raised |-> TRUE, self |-> p.self]
        ELSE [raised |-> FALSE, self |-> set_returncode(s, p.rc).self]

\* the body create_room posts
create_room_body(title) == [title |-> title]

\* create_room handing back the id of the body whatever the status
create_room_any_status(self, title, r) ==
    LET p == genericPOST(self, r)
        s == [p.self EXCEPT !.response = p.response]
        t == set_returncode(s, p.rc).self
    IN  IF p.raised
        THEN [raised |-> TRUE, self |-> p.self, ret |-> None]
        ELSE IF t.response.type = "json" /\ t.response.id # NoKey
        THEN [raised |-> FALSE, self |-> t, ret |-> t.response.id]
        ELSE IF p.rc = OK
        THEN [raised |-> TRUE, self |-> t, ret |-> None]
        ELSE [raised |-> FALSE, self |-> t, ret |-> None]

\* Connection.create_room: ret is the value handed back to main
create_room(self, title, r) ==
    LET p == genericPOST(self, r)
        s == [p.self EXCEPT !.response = p.response]
    IN  IF p.raised
        THEN [raised |-> TRUE, self |-> p.self, ret |-> None]
        ELSE IF p.rc = OK
        THEN LET t == set_returncode(s, p.rc).self
             IN  IF t.response.type = "json" /\ t.response.id # NoKey
                 THEN [raised |-> FALSE, self |-> t, ret |-> t.response.id]
                 ELSE \* KeyError / TypeError: self.response["id"]
                      [raised |-> TRUE, self |-> t, ret |-> None]
        ELSE [raised |-> FALSE, self |-> set_returncode(s, p.rc).self,
              ret |-> set_returncode(s, p.rc).ret]

\* the body add_room_member posts
add_room_member_body(room_id_, email) ==
    [personEmail |-> email, isModerator |-> "false", roomId |-> room_id_]

\* add_room_member without the special case for 403
add_room_member_no_403(self, room_id_, email, r) ==
    LET p == genericPOST(self, r)
        s == [p.self EXCEPT !.response = p.response]
    IN  IF p.raised
        THEN [raised |-> TRUE, self |-> p.self]
        ELSE [raised |-> FALSE, self |-> set_returncode(s, p.rc).self]

\* Connection.add_room_member
add_room_member(self, room_id_, email, r) ==
    LET p == genericPOST(self, r)
        s == [p.self EXCEPT !.response = p.response]
    IN  IF p.raised
        THEN [raised |-> TRUE, self |-> p.self]
        ELSE IF p.rc = Forbidden
        THEN [raised |-> FALSE, self |-> s]
        ELSE [raised |-> FALSE, self |-> set_returncode(s, p.rc).self]

-----------------------------------------------------------------------------
(* main() *)

\* longest room listing the server returns during a whole run
MaxListed == 1

\* the room titles given to a whole run: "a" is a substring of "ab"
RunTitles == {<<"a">>, <<"a", "b">>}

RunListings == SeqUpTo([id : RoomIds, title : RunTitles], MaxListed)

ListReactions == ListReactionsOver(ListStatus, RunListings)

\* a request and what came of it
Call(step, body, reaction, returned) ==
    [step |-> step, body |-> body, reaction |-> reaction, returned |-> returned]

NoBody == [k \in {} |-> None]

NoResult == [kind |-> "none", changed |-> FALSE, body |-> NoneResponse]

\* module.params and spark = Connection(token=token, debug=debug)
Init ==
    /\ room \in RunTitles
    /\ text \in {None, Empty, "hello"}
    /\ filename \in {None, Empty, "f.txt"}
    /\ members \in {None, "joe@wwt.com"}
    /\ spark = Connection
    /\ room_id = None
    /\ pc = "list_rooms"
    /\ calls = << >>
    /\ result = NoResult

\* spark.list_rooms()
ListRoomsOn(reactions) ==
    /\ pc = "list_rooms"
    /\ \E r \in reactions :
         LET q == list_rooms(spark, r)
         IN  /\ spark' = q.self
             /\ calls' = Append(calls, Call("list_rooms", NoBody, r, ~q.raised))
             /\ pc' = IF q.raised THEN "raised" ELSE "get_room_id"
    /\ UNCHANGED <<room, text, filename, members, room_id, result>>

ListRooms == ListRoomsOn(ListReactions)

\* room_id = spark.get_room_id(room)
GetRoomId ==
    /\ pc = "get_room_id"
    /\ room_id' = get_room_id(spark, room)
    /\ pc' = "create_room"
    /\ UNCHANGED <<room, text, filename, members, spark, calls, result>>

\* if not room_id: room_id = spark.create_room(room)
CreateRoom ==
    /\ pc = "create_room"
    /\ ~Truthy(room_id)
    /\ \E r \in PostReactions :
         LET q == create_room(spark, room, r)
         IN  /\ spark' = q.self
             /\ room_id' = q.ret
             /\ calls' = Append(calls,
                    Call("create_room", create_room_body(room), r, ~q.raised))
             /\ pc' = IF q.raised THEN "raised" ELSE "add_room_member"
    /\ UNCHANGED <<room, text, filename, members, result>>

SkipCreateRoom ==
    /\ pc = "create_room"
    /\ Truthy(room_id)
    /\ pc' = "add_room_member"
    /\ UNCHANGED <<room, text, filename, members, spark, room_id, calls, result>>

\* if members: spark.add_room_member(room_id, members)
AddRoomMember ==
    /\ pc = "add_room_member"
    /\ Truthy(members)
    /\ \E r \in PostReactions :
         LET q == add_room_member(spark, room_id, members, r)
         IN  /\ spark' = q.self
             /\ calls' = Append(calls,
                    Call("add_room_member",
                         add_room_member_body(room_id, members), r, ~q.raised))
             /\ pc' = IF q.raised THEN "raised" ELSE "send_message"
    /\ UNCHANGED <<room, text, filename, members, room_id, result>>

SkipAddRoomMember ==
    /\ pc = "add_room_member"
    /\ ~Truthy(members)
    /\ pc' = "send_message"
    /\ UNCHANGED <<room, text, filename, members, spark, room_id, calls, result>>

\* if text or filename: spark.send_message(room_id, text, filename)
SendMessage ==
    /\ pc = "send_message"
    /\ Truthy(text) \/ Truthy(filename)
    /\ \E r \in PostReactions :
         LET q == send_message(spark, room_id, text, filename, r)
         IN  /\ spark' = q.self
             /\ calls' = Append(calls,
                    Call("send_message",
                         send_message_payload(room_id, text, filename), r,
                         ~q.raised))
             /\ pc' = IF q.raised THEN "raised" ELSE "report"
    /\ UNCHANGED <<room, text, filename, members, room_id, result>>

SkipSendMessage ==
    /\ pc = "send_message"
    /\ ~(Truthy(text) \/ Truthy(filename))
    /\ pc' = "report"
    /\ UNCHANGED <<room, text, filename, members, spark, room_id, calls, result>>

\* if spark.code == 0: module.exit_json(...) else: module.fail_json(...)
\* (fail_json is given no changed flag)
Report ==
    /\ pc = "report"
    /\ result' = IF spark.code = 0
                 THEN [kind |-> "exit_json", changed |-> get_changed_flag(spark),
                       body |-> spark.response]
                 ELSE [kind |-> "fail_json", changed |-> FALSE,
                       body |-> spark.response]
    /\ pc' = "done"
    /\ UNCHANGED <<room, text, filename, members, spark, room_id, calls>>

Next ==
    \/ ListRooms
    \/ GetRoomId
    \/ CreateRoom
    \/ SkipCreateRoom
    \/ AddRoomMember
    \/ SkipAddRoomMember
    \/ SendMessage
    \/ SkipSendMessage
    \/ Report

Spec == Init /\ [][Next]_vars

-----------------------------------------------------------------------------
(* Resolution of a title against a wide range of listings *)

WideListReactions == ListReactionsOver({OK}, SeqUpTo(Rooms, MaxRooms))

InitResolve ==
    /\ room \in Titles
    /\ text = None
    /\ filename = None
    /\ members = None
    /\ spark = Connection
    /\ room_id = None
    /\ pc = "list_rooms"
    /\ calls = << >>
    /\ result = NoResult

ListRoomsWide == ListRoomsOn(WideListReactions)

NextResolve ==
    \/ ListRoomsWide
    \/ GetRoomId

SpecResolve == InitResolve /\ [][NextResolve]_vars

-----------------------------------------------------------------------------
(* Vocabulary of the properties *)

Steps(step) == {i \in DOMAIN calls : calls[i].step = step}

Posts == {i \in DOMAIN calls : calls[i].step # "list_rooms"}

\* the server answered call i with an HTTP status
Answered(i) == calls[i].reaction.kind = "response"

Status(i) == calls[i].reaction.status_code

Refused(i) == calls[i].reaction.kind = "ConnectionError"

\* call i got a status that is an error: not 200, and not the 403 of a member
\* who is already in the room
ErrorStatus(i) ==
    /\ Answered(i)
    /\ Status(i) # 200
    /\ ~(calls[i].step = "add_room_member" /\ Status(i) = 403)

MessageRequested == Truthy(text) \/ Truthy(filename)

LastCall == calls[Len(calls)]

\* the sum of the error statuses of the first n calls that were POSTs and
\* whose genericPOST handed its status back
RECURSIVE PostErrorSum(_)
PostErrorSum(n) ==
    IF n = 0 THEN 0
    ELSE PostErrorSum(n - 1) +
         (IF n \in Posts /\ ErrorStatus(n) /\ calls[n].returned
          THEN Status(n) ELSE 0)

-----------------------------------------------------------------------------
(* Properties *)

\* C1: when the add-member POST is refused (ConnectionError), the error tally
\* grows by a nonzero sentinel, so it is nonzero from then on and the run
\* reports failure; and the send-message step is still attempted when a text
\* or a file was given.
C1_RefusedAddMemberIsTallied ==
    \A i \in Steps("add_room_member") :
        Refused(i) =>
            /\ spark.code # 0
            /\ pc = "done" =>
                 /\ result.kind = "fail_json"
                 /\ MessageRequested => Steps("send_message") # {}

C3_AlreadyMemberChangesNothing ==
    [][ ( /\ pc = "add_room_member"
          /\ Len(calls') = Len(calls) + 1
          /\ calls'[Len(calls')].reaction.kind = "response"
          /\ calls'[Len(calls')].reaction.status_code = 403 )
        => /\ spark'.code = spark.code
           /\ spark'.changed = spark.changed
           /\ pc' = "send_message" ]_vars

\* the member was already in a room that this run has just created
C3_Witness ==
    /\ pc = "send_message"
    /\ calls # << >>
    /\ LastCall.step = "add_room_member"
    /\ Answered(Len(calls)) /\ Status(Len(calls)) = 403
    /\ spark.changed
    /\ spark.code = 0

\* t occurs in s as a run of consecutive characters
IsSubstring(t, s) ==
    \E i \in 0..Len(s) : \E j \in i..Len(s) : SubSeq(s, i + 1, j) = t

\* the listing was answered 200 with a JSON body that carries the room list
ListedRooms ==
    /\ Steps("list_rooms") # {}
    /\ \A i \in Steps("list_rooms") :
         /\ Answered(i) /\ Status(i) = 200
         /\ calls[i].reaction.content.json
         /\ calls[i].reaction.content.hasItems

\* C4: after a successful listing, get_room_id(T) is the id of the first room,
\* in the server's order, whose title has T as a substring, and is absent when
\* no listed title has T as a substring.
C4_FirstSubstringMatchWins ==
    (pc = "create_room" /\ ListedRooms) =>
        LET items == calls[1].reaction.content.items
            hits  == {i \in DOMAIN items : IsSubstring(room, items[i].title)}
        IN  /\ hits = {} => room_id = None
            /\ hits # {} =>
                 \E i \in hits : /\ \A j \in hits : i <= j
                                 /\ room_id = items[i].id

\* two listed rooms match, under different ids, and the first one, whose
\* title is longer than the title asked for, was taken
C4_Witness ==
    /\ pc = "create_room"
    /\ ListedRooms
    /\ room # << >>
    /\ LET items == calls[1].reaction.content.items
       IN  /\ Len(items) = 2
           /\ IsSubstring(room, items[1].title) /\ items[1].title # room
           /\ IsSubstring(room, items[2].title)
           /\ items[1].id # items[2].id
           /\ room_id = items[1].id

\* the listing failed (refused, status other than 200, body that is not JSON,
\* JSON without a room list) or was empty
ListingFailedOrEmpty(i) ==
    \/ Refused(i)
    \/ Status(i) # 200
    \/ ~calls[i].reaction.content.json
    \/ ~calls[i].reaction.content.hasItems
    \/ calls[i].reaction.content.items = << >>

\* C5: when the listing fails in any way or is empty, list_rooms raises
\* nothing and leaves an empty or absent collection, get_room_id finds
\* nothing, and the run goes on to create the room.
C5_FailedListingYieldsNoRooms ==
    \A i \in Steps("list_rooms") :
        ListingFailedOrEmpty(i) =>
            /\ calls[i].returned
            /\ spark.rooms.isNone \/ spark.rooms.items = << >>
            /\ pc = "create_room" => room_id = None
            /\ pc \in {"add_room_member", "send_message", "report", "done"}
                 => Steps("create_room") # {}

\* C6: a create-room POST answered 200 with a body that carries id X sets the
\* changed flag and hands X to main, and every later POST of the run carries
\* roomId X; a create-room POST that returns another status adds that status
\* to the error tally, leaves the changed flag alone and hands main an absent
\* id, which every later POST of the run carries.
C6_CreateStep ==
    ( /\ pc = "create_room"
      /\ pc' = "add_room_member"
      /\ Len(calls') = Len(calls) + 1
      /\ calls'[Len(calls')].reaction.kind = "response" )
    => LET r == calls'[Len(calls')].reaction
       IN  IF r.status_code = 200
           THEN /\ spark'.changed
                /\ spark'.code = spark.code
                /\ room_id' = r.content.id
                /\ room_id' \in RoomIds
           ELSE /\ spark'.code = spark.code + r.status_code
                /\ spark'.changed = spark.changed
                /\ room_id' = None

C6_LaterPosts ==
    \A i \in Steps("create_room") : \A j \in Posts :
        (calls[i].returned /\ Answered(i) /\ j > i) =>
            calls[j].body.roomId =
                (IF Status(i) = 200 THEN calls[i].reaction.content.id ELSE None)

C7_PayloadOmitsWhatIsAbsent ==
    \A i \in Steps("send_message") :
        LET payload == calls[i].body
        IN  /\ "roomId" \in DOMAIN payload
            /\ payload.roomId = room_id
            /\ DOMAIN payload \subseteq {"roomId", "text", "file"}
            /\ "text" \in DOMAIN payload <=> Truthy(text)
            /\ "file" \in DOMAIN payload <=> Truthy(filename)
            /\ "text" \in DOMAIN payload => payload.text = text
            /\ "file" \in DOMAIN payload => payload.file = filename

\* a text and no file: the payload has roomId and text and nothing else
C7_Witness ==
    /\ text = "hello"
    /\ filename = None
    /\ \E i \in Steps("send_message") :
         /\ DOMAIN calls[i].body = {"roomId", "text"}
         /\ calls[i].body.text = "hello"

\* every POST of the run was answered 200, or 403 for add member
AllPostsAccepted ==
    \A i \in Posts :
        /\ Answered(i)
        /\ \/ Status(i) = 200
           \/ calls[i].step = "add_room_member" /\ Status(i) = 403

Resolved ==
    \E i \in DOMAIN spark.rooms.items :
        IsSubstring(room, spark.rooms.items[i].title)

\* the order of the steps in main()
StepOrder(step) ==
    CASE step = "list_rooms"      -> 1
      [] step = "create_room"     -> 2
      [] step = "add_room_member" -> 3
      [] step = "send_message"    -> 4

\* C9: steps run in the order list rooms, create room, add member, send
\* message, each at most once; and in a run that has ended, create room ran
\* exactly when no room was resolved, add member exactly when a member was
\* given, send message exactly when a text or a file was given, whatever the
\* earlier steps were answered.
C9_NoRequestedStepIsSkipped ==
    /\ \A i, j \in DOMAIN calls :
         i < j => StepOrder(calls[i].step) < StepOrder(calls[j].step)
    /\ pc \in {"done", "raised"} =>
         /\ Steps("list_rooms") # {}
         /\ Steps("create_room") # {} => ~Resolved
         /\ (calls[1].returned /\ ~Resolved) => Steps("create_room") # {}
         /\ Steps("add_room_member") # {} <=> Truthy(members)
         /\ Steps("send_message") # {} <=> MessageRequested
         /\ \A i \in Steps("create_room") : \A j \in Posts :
              (j > i /\ ~(Answered(i) /\ Status(i) = 200)) =>
                  calls[j].body.roomId = None

\* C10: no fault escapes: every call returns to its caller, whatever the
\* server answers, so no run ends anywhere but in a report.
C10_NoFaultEscapes ==
    /\ pc # "raised"
    /\ \A i \in DOMAIN calls : calls[i].returned

====
